---- MODULE Spec2Model ----
(***************************************************************************)
(* A model of sqlexptree (src/sqlexptree/__init__.py): the quoting engine  *)
(* of SqlBuilder, the expression nodes and their operators, the logical    *)
(* combinators and the immutable clause builder.                           *)
(*                                                                         *)
(* Byte strings are TLA+ strings, one character per byte; only ASCII text  *)
(* is modelled, on which str.encode("utf-8") keeps every character.        *)
(* A Python value is a record with a `type` field naming its class.  The   *)
(* result of a call is Ok(v) or Raise(exception).  A callback (lambda _:   *)
(* ...) is a value of type "function" carrying what it returns when it is  *)
(* applied to SNameBase(): the root is stateless, so the tree the callback *)
(* builds is the same on every call.                                       *)
(***************************************************************************)
EXTENDS Integers, Sequences, FiniteSets, TLC

VARIABLES builders, parent, made, last, first, args, fn, res

vars == <<builders, parent, made, last, first, args, fn, res>>

(***************************************************************************)
(* Bounds of the model.                                                    *)
(***************************************************************************)
MaxLen == 2

MaxArgs == 3

MaxBuilders == 3

MaxChain == 3

(***************************************************************************)
(* Five bytes have no place in a TLA+ string literal: the backtick is not  *)
(* a character of TLA+ strings and the four control bytes have no escape.  *)
(* Each is denoted by a printable character that occurs nowhere else in    *)
(* the modelled text: the model's alphabet is the program's with these     *)
(* five renamed, so  select #column0#  reads  select `column0`.            *)
(***************************************************************************)
\* the backtick, byte 0x60
BQ == "#"

\* NUL, byte 0x00 (b"\0")
NUL == "@"

\* backspace, byte 0x08 (b"\b")
BS == "["

\* SUB, byte 0x1A (b"\032")
SUB == "]"

\* vertical tab, byte 0x0B
VT == "~"

(***************************************************************************)
(* Results of calls.                                                       *)
(***************************************************************************)
Ok(v) == [exc |-> "", v |-> v]

Raise(e) == [exc |-> e, v |-> ""]

IsOk(r) == r.exc = ""

\* a + b on bytes, the operands evaluated left to right
Cat(a, b) == IF ~IsOk(a) THEN a ELSE IF ~IsOk(b) THEN b ELSE Ok(a.v \o b.v)

RECURSIVE CatAll(_)
CatAll(rs) == IF rs = <<>> THEN Ok("") ELSE Cat(Head(rs), CatAll(Tail(rs)))

\* sep.join(parts) over a generator: the parts are produced first, in order
RECURSIVE join(_, _)
join(sep, rs) ==
    IF rs = <<>> THEN Ok("")
    ELSE IF Len(rs) = 1 THEN Head(rs)
    ELSE Cat(Head(rs), Cat(Ok(sep), join(sep, Tail(rs))))

\* bytes.replace(old, new) for a one-byte old
RECURSIVE replace(_, _, _)
replace(s, old, new) ==
    IF s = "" THEN ""
    ELSE (IF Head(s) = old THEN new ELSE Head(s)) \o replace(Tail(s), old, new)

\* the bytes that bytes.strip() removes
Whitespace == {" ", "\t", "\n", "\r", VT, "\f"}

RECURSIVE lstrip(_)
lstrip(s) == IF s # "" /\ Head(s) \in Whitespace THEN lstrip(Tail(s)) ELSE s

RECURSIVE rstrip(_)
rstrip(s) ==
    IF s # "" /\ SubSeq(s, Len(s), Len(s)) \in Whitespace
    THEN rstrip(SubSeq(s, 1, Len(s) - 1))
    ELSE s

strip(s) == rstrip(lstrip(s))

(***************************************************************************)
(* Python values.                                                          *)
(***************************************************************************)
None == [type |-> "NoneType"]

PyBool(b) == [type |-> "bool", b |-> b]

PyInt(n) == [type |-> "int", n |-> n]

\* a float or a Decimal is kept by the text str() gives for it
PyFloat(text) == [type |-> "float", text |-> text]

PyDecimal(text) == [type |-> "Decimal", text |-> text]

PyStr(s) == [type |-> "str", s |-> s]

PyBytes(s) == [type |-> "bytes", s |-> s]

PyList(items) == [type |-> "list", items |-> items]

PyTuple(items) == [type |-> "tuple", items |-> items]

\* a dict keeps its items in insertion order
PyDict(pairs) == [type |-> "dict", pairs |-> pairs]

Lambda(returns) == [type |-> "function", returns |-> returns]

DateTime(y, mo, d, h, mi, s, us) ==
    [type |-> "datetime", y |-> y, mo |-> mo, d |-> d, h |-> h, mi |-> mi, sec |-> s, us |-> us]

Date(y, mo, d) == [type |-> "date", y |-> y, mo |-> mo, d |-> d]

Time(h, mi, s, us) == [type |-> "time", h |-> h, mi |-> mi, sec |-> s, us |-> us]

\* a timedelta of whole seconds
TimeDelta(days, seconds) == [type |-> "timedelta", days |-> days, seconds |-> seconds]

SNameBase == [type |-> "SNameBase"]

SName(name_list) == [type |-> "SName", name_list |-> name_list]

SMethod(name_list, a) == [type |-> "SMethod", name_list |-> name_list, args |-> a]

SOperator(op_name, left, right) ==
    [type |-> "SOperator", op_name |-> op_name, left |-> left, right |-> right]

SSingleOperator(op_name, expr) ==
    [type |-> "SSingleOperator", op_name |-> op_name, expr |-> expr]

SqlBuilder(encoding, sql) == [type |-> "SqlBuilder", encoding |-> encoding, sql |-> sql]

\* the classes a value is an instance of
Mro(t) ==
    CASE t = "bool" -> {"bool", "int"}
      [] t = "datetime" -> {"datetime", "date"}
      [] t \in {"SName", "SMethod", "SOperator", "SSingleOperator", "SHex"} -> {t, "_SOperatable"}
      [] OTHER -> {t}

isinstance(obj, classes) == Mro(obj.type) \cap classes # {}

StrTypes == {"str", "bytes"}

ListTypes == {"list", "tuple"}

(***************************************************************************)
(* str() and strftime.                                                     *)
(***************************************************************************)
Digit(d) == SubSeq("0123456789", d + 1, d + 1)

RECURSIVE NatToStr(_)
NatToStr(n) == IF n < 10 THEN Digit(n) ELSE NatToStr(n \div 10) \o Digit(n % 10)

RECURSIVE Pad(_, _)
Pad(s, width) == IF Len(s) >= width THEN s ELSE Pad("0" \o s, width)

str(obj) ==
    CASE obj.type = "bool" -> IF obj.b THEN "True" ELSE "False"
      [] obj.type = "int" -> IF obj.n < 0 THEN "-" \o NatToStr(-obj.n) ELSE NatToStr(obj.n)
      [] obj.type \in {"float", "Decimal"} -> obj.text
      [] obj.type = "date" ->
            Pad(NatToStr(obj.y), 4) \o "-" \o Pad(NatToStr(obj.mo), 2) \o "-" \o Pad(NatToStr(obj.d), 2)
      [] obj.type \in {"time", "datetime"} ->
            (IF obj.type = "datetime"
             THEN Pad(NatToStr(obj.y), 4) \o "-" \o Pad(NatToStr(obj.mo), 2) \o "-"
                    \o Pad(NatToStr(obj.d), 2) \o " "
             ELSE "")
            \o Pad(NatToStr(obj.h), 2) \o ":" \o Pad(NatToStr(obj.mi), 2) \o ":"
            \o Pad(NatToStr(obj.sec), 2)
            \o (IF obj.us = 0 THEN "" ELSE "." \o Pad(NatToStr(obj.us), 6))

\* obj.strftime("%Y-%m-%d %H:%M:%S")
strftime(obj) ==
    Pad(NatToStr(obj.y), 4) \o "-" \o Pad(NatToStr(obj.mo), 2) \o "-" \o Pad(NatToStr(obj.d), 2)
    \o " " \o Pad(NatToStr(obj.h), 2) \o ":" \o Pad(NatToStr(obj.mi), 2) \o ":"
    \o Pad(NatToStr(obj.sec), 2)

\* str(obj.total_seconds()) of a timedelta of whole seconds
total_seconds(obj) == NatToStr(obj.days * 86400 + obj.seconds) \o ".0"

(***************************************************************************)
(* The quoting engine of SqlBuilder.                                       *)
(***************************************************************************)
_as_bytes(s) == IF isinstance(s, StrTypes) THEN Ok(s.s) ELSE Raise("TypeError")

\* the chain of replace calls of _quote_string, in the order of the source
escape_string(b) ==
    replace(replace(replace(replace(replace(replace(replace(replace(replace(replace(replace(
        b, NUL, "\\0"), "'", "\\'"), "\"", "\\\""), BS, "\\b"), "\n", "\\n"), "\r", "\\r"),
        "\t", "\\t"), SUB, "\\Z"), "\\", "\\\\"), "%", "\\%"), "_", "\\_")

_quote_string(s) ==
    LET b == _as_bytes(s)
    IN  IF ~IsOk(b) THEN b ELSE Ok("'" \o escape_string(b.v) \o "'")

_quote_identifier(s) ==
    LET b == _as_bytes(s)
    IN  IF ~IsOk(b) THEN b ELSE Ok(BQ \o replace(b.v, BQ, BQ \o BQ) \o BQ)

RECURSIVE _quote(_)
RECURSIVE _to_bytes(_)

\* SName._to_bytes, SMethod._to_bytes, SOperator._to_bytes,
\* SSingleOperator._to_bytes and SHex._to_bytes, by the class of the node
_to_bytes(obj) ==
    CASE obj.type = "SName" ->
            join(".", [i \in 1..Len(obj.name_list) |-> _quote_identifier(PyStr(obj.name_list[i]))])
      [] obj.type = "SMethod" ->
            LET n == Len(obj.name_list)
            IN  Cat(join(".", [i \in 1..n |->
                        IF i < n THEN _quote_identifier(PyStr(obj.name_list[i]))
                        ELSE _as_bytes(PyStr(obj.name_list[i]))]),
                Cat(Ok("("),
                Cat(join(", ", [i \in 1..Len(obj.args) |-> _quote(obj.args[i])]),
                    Ok(")"))))
      [] obj.type = "SOperator" ->
            CatAll(<<Ok("("), _quote(obj.left), Ok(" "), _as_bytes(PyStr(obj.op_name)),
                     Ok(" "), _quote(obj.right), Ok(")")>>)
      [] obj.type = "SSingleOperator" ->
            CatAll(<<Ok("("), _as_bytes(PyStr(obj.op_name)), Ok(" "), _quote(obj.expr), Ok(")")>>)
      [] obj.type = "SHex" -> Cat(Ok("0x"), _as_bytes(obj.hex))

\* _quote with the number test moved before the bool test
_quote_number_first(obj) ==
    IF obj = None THEN Ok("NULL")
    ELSE IF isinstance(obj, {"int", "float", "Decimal"}) THEN _as_bytes(PyStr(str(obj)))
    ELSE IF isinstance(obj, {"bool"}) THEN Ok(IF obj.b THEN "1" ELSE "0")
    ELSE IF isinstance(obj, {"SNameBase"}) THEN Ok("*")
    ELSE IF isinstance(obj, {"datetime"}) THEN _quote_string(PyStr(strftime(obj)))
    ELSE IF isinstance(obj, {"date", "time"}) THEN _quote_string(PyStr(str(obj)))
    ELSE IF isinstance(obj, {"timedelta"}) THEN
        CatAll(<<Ok("interval "), _quote_string(PyStr(total_seconds(obj))),
                 Ok(" second_microsecond")>>)
    ELSE IF isinstance(obj, {"_SOperatable"}) THEN _to_bytes(obj)
    ELSE IF isinstance(obj, StrTypes) THEN _quote_string(obj)
    ELSE Raise("TypeError")

_quote(obj) ==
    IF obj = None THEN Ok("NULL")
    ELSE IF isinstance(obj, {"bool"}) THEN Ok(IF obj.b THEN "1" ELSE "0")
    ELSE IF isinstance(obj, {"SNameBase"}) THEN Ok("*")
    ELSE IF isinstance(obj, {"int", "float", "Decimal"}) THEN _as_bytes(PyStr(str(obj)))
    ELSE IF isinstance(obj, {"datetime"}) THEN _quote_string(PyStr(strftime(obj)))
    ELSE IF isinstance(obj, {"date", "time"}) THEN _quote_string(PyStr(str(obj)))
    ELSE IF isinstance(obj, {"timedelta"}) THEN
        CatAll(<<Ok("interval "), _quote_string(PyStr(total_seconds(obj))),
                 Ok(" second_microsecond")>>)
    ELSE IF isinstance(obj, {"_SOperatable"}) THEN _to_bytes(obj)
    ELSE IF isinstance(obj, StrTypes) THEN _quote_string(obj)
    ELSE Raise("TypeError")

(***************************************************************************)
(* The operators of _SOperatable and the logical combinators.              *)
(***************************************************************************)
__lt__(self, other) == SOperator("<", self, other)

__le__(self, other) == SOperator("<=", self, other)

\* __eq__ without the test for None
__eq__never_is(self, other) == SOperator("=", self, other)

__eq__(self, other) ==
    IF other = None THEN SOperator("is", self, other) ELSE SOperator("=", self, other)

__ne__(self, other) ==
    IF other = None THEN SOperator("is not", self, other) ELSE SOperator("<>", self, other)

__gt__(self, other) == SOperator(">", self, other)

__ge__(self, other) == SOperator(">=", self, other)

__add__(self, other) == SOperator("+", self, other)

__sub__(self, other) == SOperator("-", self, other)

__neg__(self) == SSingleOperator("-", self)

\* SNameBase.__getattr__ and SName.__getattr__
__getattr__(self, name) ==
    IF self.type = "SNameBase" THEN SName(<<name>>) ELSE SName(Append(self.name_list, name))

\* SName.__call__
__call__(self, a) == SMethod(self.name_list, a)

HexDigits == {SubSeq("0123456789abcdefABCDEF", i, i) : i \in 1..22}

\* SHex.__init__: the digits are checked by an assert statement
SHex(hex) ==
    IF ~isinstance(hex, StrTypes) THEN Raise("TypeError")
    ELSE IF \E i \in 1..Len(hex.s) : SubSeq(hex.s, i, i) \notin HexDigits
         THEN Raise("AssertionError")
    ELSE Ok([type |-> "SHex", hex |-> hex])

from_hex_str(value) == SHex(value)

\* the loop of op_or and op_and over exprs[2:]
RECURSIVE fold(_, _, _)
fold(op_name, op, exprs) ==
    IF exprs = <<>> THEN op ELSE fold(op_name, SOperator(op_name, op, Head(exprs)), Tail(exprs))

\* exprs[0] and exprs[1] raise IndexError on a tuple that is too short
op_or(exprs) ==
    IF Len(exprs) < 2 THEN Raise("IndexError")
    ELSE Ok(fold("or", SOperator("or", exprs[1], exprs[2]), SubSeq(exprs, 3, Len(exprs))))

\* a call with a number of arguments other than two raises TypeError
op_xor(a) ==
    IF Len(a) # 2 THEN Raise("TypeError") ELSE Ok(SOperator("xor", a[1], a[2]))

\* op_and that hands back a single operand instead of raising
op_and_single(exprs) ==
    IF Len(exprs) = 0 THEN Raise("IndexError")
    ELSE IF Len(exprs) = 1 THEN Ok(exprs[1])
    ELSE Ok(fold("and", SOperator("and", exprs[1], exprs[2]), SubSeq(exprs, 3, Len(exprs))))

op_and(exprs) ==
    IF Len(exprs) < 2 THEN Raise("IndexError")
    ELSE Ok(fold("and", SOperator("and", exprs[1], exprs[2]), SubSeq(exprs, 3, Len(exprs))))

\* a call with a number of arguments other than one raises TypeError
op_not(a) ==
    IF Len(a) # 1 THEN Raise("TypeError") ELSE Ok(SSingleOperator("not", a[1]))

(***************************************************************************)
(* Python's protocol for the arguments the clause methods take apart.      *)
(***************************************************************************)
\* obj[i], i counted from 0
index(obj, i) == IF i < Len(obj.items) THEN Ok(obj.items[i + 1]) ELSE Raise("IndexError")

\* dict.items()
items(obj) == [i \in 1..Len(obj.pairs) |-> PyTuple(obj.pairs[i])]

\* f(SNameBase()): only a function is called here
apply(f) == IF f.type = "function" THEN Ok(f.returns) ELSE Raise("TypeError")

\* the elements a for loop draws from obj
iter(obj) ==
    IF isinstance(obj, ListTypes) THEN Ok(obj.items)
    ELSE IF obj.type = "dict" THEN Ok([i \in 1..Len(obj.pairs) |-> obj.pairs[i][1]])
    ELSE Raise("TypeError")

\* key, value = pair
unpack2(pair) ==
    LET elems == iter(pair)
    IN  IF ~IsOk(elems) THEN elems
        ELSE IF Len(elems.v) # 2 THEN Raise("ValueError")
        ELSE elems

\* self._quote_identifier(x[1]) + b" as " + self._quote_identifier(x[0]),
\* evaluated left to right
aliased_identifier(x) ==
    LET named == index(x, 1)
        alias == index(x, 0)
    IN  IF ~IsOk(named) THEN named
        ELSE IF ~IsOk(_quote_identifier(named.v)) THEN _quote_identifier(named.v)
        ELSE IF ~IsOk(alias) THEN alias
        ELSE CatAll(<<_quote_identifier(named.v), Ok(" as "), _quote_identifier(alias.v)>>)

\* self._quote(x[1]) + b" as " + self._quote_identifier(x[0])
aliased_value(x) ==
    LET named == index(x, 1)
        alias == index(x, 0)
    IN  IF ~IsOk(named) THEN named
        ELSE IF ~IsOk(_quote(named.v)) THEN _quote(named.v)
        ELSE IF ~IsOk(alias) THEN alias
        ELSE CatAll(<<_quote(named.v), Ok(" as "), _quote_identifier(alias.v)>>)

(***************************************************************************)
(* SqlBuilder: the clause methods.  Each returns Ok(a new builder) or      *)
(* Raise(exception).                                                       *)
(***************************************************************************)
\* build without strip
build_untrimmed(self) == self.sql

build(self) == strip(self.sql)

\* append that puts the new text in front of the fragment
append_in_front(self, s) ==
    LET b == _as_bytes(s)
    IN  IF ~IsOk(b) THEN b ELSE Ok(SqlBuilder(self.encoding, b.v \o " " \o self.sql))

append(self, s) ==
    LET b == _as_bytes(s)
    IN  IF ~IsOk(b) THEN b ELSE Ok(SqlBuilder(self.encoding, self.sql \o " " \o b.v))

\* return self.append(<bytes expression>): the expression is evaluated first
append_bytes(self, text) == IF ~IsOk(text) THEN text ELSE append(self, PyBytes(text.v))

\* the names of a FROM clause or of a static select list
identifier_list(names) ==
    join(", ", [i \in 1..Len(names) |->
        IF isinstance(names[i], ListTypes) THEN aliased_identifier(names[i])
        ELSE _quote_identifier(names[i])])

from_tables(self, tables) ==
    LET ts == IF tables.type = "dict" THEN items(tables)
              ELSE IF ~isinstance(tables, ListTypes) THEN <<tables>>
              ELSE tables.items
    IN  append_bytes(self, Cat(Ok("from "), identifier_list(ts)))

\* select_expr that joins with a comma alone
select_expr_comma(result) ==
    IF isinstance(result, ListTypes \cup {"dict"}) THEN
        LET objs == IF result.type = "dict" THEN items(result) ELSE result.items
        IN  join(",", [i \in 1..Len(objs) |->
                IF isinstance(objs[i], ListTypes) THEN aliased_value(objs[i])
                ELSE _quote(objs[i])])
    ELSE _quote(result)

\* the select list of what a callback returned
select_expr(result) ==
    IF isinstance(result, ListTypes \cup {"dict"}) THEN
        LET objs == IF result.type = "dict" THEN items(result) ELSE result.items
        IN  join(", ", [i \in 1..Len(objs) |->
                IF isinstance(objs[i], ListTypes) THEN aliased_value(objs[i])
                ELSE _quote(objs[i])])
    ELSE _quote(result)

select(self, selector) ==
    IF isinstance(selector, StrTypes) THEN
        append_bytes(self, Cat(Ok("select "), _as_bytes(selector)))
    ELSE IF isinstance(selector, ListTypes \cup {"dict"}) THEN
        append_bytes(self, Cat(Ok("select "),
            identifier_list(IF selector.type = "dict" THEN items(selector) ELSE selector.items)))
    ELSE LET result == apply(selector)
         IN  IF ~IsOk(result) THEN result
             ELSE append_bytes(self, Cat(Ok("select "), select_expr(result.v)))

where(self, predicate) ==
    IF isinstance(predicate, StrTypes) THEN
        append_bytes(self, Cat(Ok("where "), _as_bytes(predicate)))
    ELSE LET result == apply(predicate)
         IN  IF ~IsOk(result) THEN result
             ELSE append_bytes(self, Cat(Ok("where "), _quote(result.v)))

insert(self, into, columns, ignore) ==
    LET head == Cat(Ok("insert" \o (IF ignore.b THEN " ignore" ELSE "") \o " into "),
                    _quote_identifier(into))
        cols == IF columns = None THEN Ok("")
                ELSE IF isinstance(columns, ListTypes) THEN
                    CatAll(<<Ok(" ("),
                             join(", ", [i \in 1..Len(columns.items) |->
                                            _quote_identifier(columns.items[i])]),
                             Ok(")")>>)
                ELSE Raise("TypeError")
    IN  append_bytes(self, Cat(head, cols))

\* one parenthesised row of VALUES
values_row(arg) ==
    LET row == IF isinstance(arg, ListTypes) THEN Ok(arg)
               ELSE apply(arg)
        vs == IF ~IsOk(row) THEN row ELSE iter(row.v)
    IN  IF ~IsOk(vs) THEN vs
        ELSE CatAll(<<Ok("("),
                      join(", ", [i \in 1..Len(vs.v) |-> _quote(vs.v[i])]),
                      Ok(")")>>)

values(self, values_list) ==
    IF Len(values_list) = 1 /\ isinstance(values_list[1], StrTypes) THEN
        append_bytes(self, Cat(Ok("values "), _as_bytes(values_list[1])))
    ELSE append_bytes(self, Cat(Ok("values "),
            join(", ", [i \in 1..Len(values_list) |-> values_row(values_list[i])])))

\* one column=value of SET
set_pair(pair) ==
    LET kv == unpack2(pair)
    IN  IF ~IsOk(kv) THEN kv
        ELSE CatAll(<<_quote_identifier(kv.v[1]), Ok("="), _quote(kv.v[2])>>)

set(self, pairs) ==
    IF isinstance(pairs, StrTypes) THEN
        append_bytes(self, Cat(Ok("where "), _as_bytes(pairs)))
    ELSE LET ps == IF pairs.type = "dict" THEN Ok(items(pairs))
                   ELSE IF isinstance(pairs, ListTypes) THEN Ok(pairs.items)
                   ELSE LET result == apply(pairs)
                        IN  IF ~IsOk(result) THEN result
                            ELSE IF result.v.type = "dict" THEN Ok(items(result.v))
                            ELSE Raise("AttributeError")
         IN  IF ~IsOk(ps) THEN ps
             ELSE append_bytes(self, Cat(Ok("set "),
                    join(", ", [i \in 1..Len(ps.v) |-> set_pair(ps.v[i])])))

update(self, table, ignore) ==
    append_bytes(self, Cat(Ok("update " \o (IF ignore.b THEN "ignore " ELSE "")),
                           _quote_identifier(table)))

delete(self, tables, quick, ignore) ==
    LET head == append(self, PyBytes("delete" \o (IF ignore.b THEN " quick" ELSE "")
                                              \o (IF ignore.b THEN " ignore" ELSE "")))
    IN  IF ~IsOk(head) THEN head ELSE from_tables(head.v, tables)

(***************************************************************************)
(* A client of SqlBuilder.  builders is the heap of builder objects the    *)
(* client holds, in order of creation; a clause call on any of them        *)
(* creates the next one.  parent and made record, for each builder, the    *)
(* receiver and the call that produced it; last is the last operation;     *)
(* first is the first build() the client made: its receiver, what it       *)
(* returned and whether that builder was built again.                      *)
(***************************************************************************)
Method(m, a) == [m |-> m, a |-> a]

\* builder.m(*a)
call(self, c) ==
    CASE c.m = "append" -> append(self, c.a[1])
      [] c.m = "select" -> select(self, c.a[1])
      [] c.m = "from_tables" -> from_tables(self, c.a[1])
      [] c.m = "where" -> where(self, c.a[1])
      [] c.m = "insert" -> insert(self, c.a[1], c.a[2], c.a[3])
      [] c.m = "values" -> values(self, c.a)
      [] c.m = "set" -> set(self, c.a[1])
      [] c.m = "update" -> update(self, c.a[1], c.a[2])
      [] c.m = "delete" -> delete(self, c.a[1], c.a[2], c.a[3])

\* SqlBuilder(): encoding="utf-8", sql=b""
NewBuilder == SqlBuilder("utf-8", "")

column0 == __getattr__(SNameBase, "column0")

column1 == __getattr__(SNameBase, "column1")

now == __call__(__getattr__(SNameBase, "now"), <<>>)

\* the calls the client of Spec makes: every clause method, and three calls
\* that raise
Calls ==
    { Method("append", <<PyBytes("\n")>>),
      Method("select", <<Lambda(SNameBase)>>),
      Method("from_tables", <<PyStr("table")>>),
      Method("where", <<PyStr("column1 = 80")>>),
      Method("insert", <<PyStr("table"), None, PyBool(FALSE)>>),
      Method("values", <<PyTuple(<<PyInt(20)>>)>>),
      Method("set", <<PyList(<<PyTuple(<<PyStr("column1"), PyInt(80)>>)>>)>>),
      Method("update", <<PyStr("table"), PyBool(FALSE)>>),
      Method("delete", <<PyStr("table"), PyBool(FALSE), PyBool(FALSE)>>),
      Method("append", <<PyInt(5)>>),
      Method("insert", <<PyStr("table"), PyStr("column0"), PyBool(FALSE)>>),
      Method("delete", <<PyInt(5), PyBool(FALSE), PyBool(TRUE)>>) }

\* the calls of the fluent chains of SpecChain
ChainCalls ==
    { Method("select", <<Lambda(PyList(<<column0, column1>>))>>),
      Method("from_tables", <<PyStr("table")>>),
      Method("where", <<Lambda(op_and(<<__gt__(column0, PyInt(5)), __lt__(column1, PyInt(10))>>).v)>>),
      Method("append", <<PyBytes("\t\n")>>),
      Method("select", <<Lambda(PyTuple(<<column1, now, PyInt(5)>>))>>) }

NoCall == Method("__init__", <<>>)

Init ==
    /\ builders = <<NewBuilder>>
    /\ parent = <<0>>
    /\ made = <<NoCall>>
    /\ last = [op |-> "__init__", recv |-> 0, exc |-> "", out |-> ""]
    /\ first = [recv |-> 0, out |-> "", again |-> FALSE]
    /\ args = <<>>
    /\ fn = ""
    /\ res = Ok("")

\* a call that writes the new fragment into the receiver as well
allocate_and_write(bs, i, r) == Append([bs EXCEPT ![i] = r.v], r.v)

\* the heap after builders[i].m(*a) returned r: the new object is added and
\* no object that exists is written
allocate(bs, i, r) == Append(bs, r.v)

\* builders[i].m(*a): a new builder, or an exception
Call(i, c) ==
    LET r == call(builders[i], c)
    IN  /\ last' = [op |-> c.m, recv |-> i, exc |-> r.exc, out |-> ""]
        /\ IF IsOk(r)
           THEN /\ builders' = allocate(builders, i, r)
                /\ parent' = Append(parent, i)
                /\ made' = Append(made, c)
           ELSE UNCHANGED <<builders, parent, made>>
        /\ UNCHANGED <<first, args, fn, res>>

\* the heap after builders[i].build(): build reads self._sql and writes nothing
built(bs, i) == bs

\* builders[i].build()
Build(i) ==
    /\ last' = [op |-> "build", recv |-> i, exc |-> "", out |-> build(builders[i])]
    /\ first' = IF first.recv = 0
                THEN [recv |-> i, out |-> build(builders[i]), again |-> FALSE]
                ELSE IF first.recv = i THEN [first EXCEPT !.again = TRUE]
                ELSE first
    /\ builders' = built(builders, i)
    /\ UNCHANGED <<parent, made, args, fn, res>>

\* the client stops creating builders at MaxBuilders; a call that raises
\* creates none
Next ==
    \E i \in DOMAIN builders : \E c \in Calls :
        /\ Len(builders) < MaxBuilders \/ ~IsOk(call(builders[i], c))
        /\ Call(i, c)

Spec == Init /\ [][Next]_vars

\* a fluent chain SqlBuilder().m1(...).m2(...)...: every call is made on the
\* builder the call before it returned; build() is called on any of them
ChainNext ==
    \/ \E c \in ChainCalls : Len(builders) <= MaxChain /\ Call(Len(builders), c)
    \/ \E i \in DOMAIN builders : Build(i)

SpecChain == Init /\ [][ChainNext]_vars

(***************************************************************************)
(* The functions of the module applied to arguments: args is the tuple of  *)
(* arguments (self first, for a method), fn the function that was applied  *)
(* and res what it returned or raised.                                     *)
(***************************************************************************)
\* the bytes _quote_string replaces, and one it leaves alone
EscChars == {NUL, "'", "\"", BS, "\n", "\r", "\t", SUB, "\\", "%", "_", "a"}

RECURSIVE StringsUpTo(_)
StringsUpTo(n) ==
    IF n = 0 THEN {""}
    ELSE LET S == StringsUpTo(n - 1) IN S \cup {s \o c : s \in S, c \in EscChars}

\* expression nodes of every class
Exprs ==
    { column0,
      __getattr__(__getattr__(SNameBase, "table"), "column1"),
      now,
      __call__(__getattr__(SNameBase, "max"), <<column0, PyInt(5)>>),
      __gt__(column0, PyInt(5)),
      __sub__(now, TimeDelta(0, 3600)),
      __neg__(column1),
      from_hex_str(PyStr("ff")).v }

\* values of every kind _quote tells apart, and of kinds it rejects
Values ==
    Exprs \cup
    { None, PyBool(TRUE), PyBool(FALSE), PyInt(0), PyInt(1), PyInt(-12), PyInt(2013),
      PyFloat("2.5"), PyDecimal("1.10"),
      DateTime(2013, 1, 2, 3, 4, 5, 0), DateTime(2013, 1, 2, 3, 4, 5, 6),
      Date(2013, 1, 2), Time(3, 4, 5, 0), Time(3, 4, 5, 6), TimeDelta(1, 3600),
      SNameBase, PyStr("it's"), PyBytes("a_b"),
      NewBuilder, SqlBuilder("utf-8", " select 1"),
      PyList(<<PyInt(1)>>), PyTuple(<<>>), PyDict(<< <<PyStr("A"), PyInt(1)>> >>),
      Lambda(column0),
      __add__(column0, PyList(<<>>)),
      __call__(__getattr__(SNameBase, "f"), <<NewBuilder>>) }

QuoteInputs == {<<v>> : v \in Values}

StringInputs == {<<PyBytes(s)>> : s \in StringsUpTo(MaxLen)} \cup {<<PyStr("it's")>>, <<PyInt(1)>>}

CompareInputs == {<<e, r>> : e \in Exprs, r \in Values}

Operands == {column0, __gt__(column1, PyInt(5))}

RECURSIVE TuplesUpTo(_)
TuplesUpTo(n) ==
    IF n = 0 THEN {<<>>}
    ELSE LET S == TuplesUpTo(n - 1) IN S \cup {Append(t, e) : t \in S, e \in Operands}

CombinatorInputs == TuplesUpTo(MaxArgs)

Selves == {NewBuilder, SqlBuilder("utf-8", " select *")}

Flags == {PyBool(FALSE), PyBool(TRUE)}

TableArgs ==
    { PyStr("table"), PyBytes("t" \o BQ \o "1"),
      PyList(<<PyStr("t1"), PyStr("t2")>>),
      PyTuple(<<PyTuple(<<PyStr("a"), PyStr("t1")>>), PyStr("t2")>>),
      PyDict(<< <<PyStr("a"), PyStr("t1")>>, <<PyStr("b"), PyStr("t2")>> >>),
      PyList(<<>>),
      PyInt(5),
      PyList(<<PyTuple(<<PyStr("a")>>)>>) }

FromInputs == {<<self, t>> : self \in Selves, t \in TableArgs}

DeleteInputs == {<<self, t, quick, ignore>> : self \in Selves, t \in TableArgs, quick \in Flags, ignore \in Flags}

SetPairs ==
    << <<PyStr("column0"), PyInt(20)>>, <<PyStr("column1"), __sub__(now, TimeDelta(0, 3600))>> >>

SetArgs ==
    { PyDict(SetPairs),
      PyDict(<< >>),
      PyList(<<PyTuple(<<PyStr("column1"), PyInt(80)>>)>>),
      PyTuple(<<PyList(SetPairs[1]), PyTuple(SetPairs[2])>>),
      Lambda(PyDict(SetPairs)),
      PyStr("column1 = 80"),
      PyBytes("a=1"),
      Lambda(PyList(<<PyTuple(SetPairs[1])>>)),
      PyList(<<PyTuple(<<PyStr("column1")>>)>>),
      PyDict(<< <<PyStr("column1"), NewBuilder>> >>),
      PyInt(5) }

SetInputs == {<<self, p>> : self \in Selves, p \in SetArgs}

InitExpr ==
    /\ builders = <<NewBuilder>>
    /\ parent = <<0>>
    /\ made = <<NoCall>>
    /\ last = [op |-> "__init__", recv |-> 0, exc |-> "", out |-> ""]
    /\ first = [recv |-> 0, out |-> "", again |-> FALSE]
    /\ args \in QuoteInputs \cup StringInputs \cup CompareInputs \cup CombinatorInputs
                \cup FromInputs \cup DeleteInputs \cup SetInputs
    /\ fn = ""
    /\ res = Ok("")

\* fn(*args) was called and returned or raised r
Returned(name, r) ==
    /\ fn = ""
    /\ fn' = name
    /\ res' = r
    /\ UNCHANGED <<builders, parent, made, last, first, args>>

QuoteString == args \in StringInputs /\ Returned("_quote_string", _quote_string(args[1]))

Quote == args \in QuoteInputs /\ Returned("_quote", _quote(args[1]))

Eq == args \in CompareInputs /\ Returned("__eq__", Ok(__eq__(args[1], args[2])))

Ne == args \in CompareInputs /\ Returned("__ne__", Ok(__ne__(args[1], args[2])))

OpOr == args \in CombinatorInputs /\ Returned("op_or", op_or(args))

OpXor == args \in CombinatorInputs /\ Returned("op_xor", op_xor(args))

OpAnd == args \in CombinatorInputs /\ Returned("op_and", op_and(args))

OpNot == args \in CombinatorInputs /\ Returned("op_not", op_not(args))

FromTables == args \in FromInputs /\ Returned("from_tables", from_tables(args[1], args[2]))

Delete == args \in DeleteInputs /\ Returned("delete", delete(args[1], args[2], args[3], args[4]))

Set == args \in SetInputs /\ Returned("set", set(args[1], args[2]))

NextExpr ==
    \/ QuoteString
    \/ Quote
    \/ Eq
    \/ Ne
    \/ OpOr
    \/ OpXor
    \/ OpAnd
    \/ OpNot
    \/ FromTables
    \/ Delete
    \/ Set

SpecExpr == InitExpr /\ [][NextExpr]_vars

(***************************************************************************)
(* What the claims speak of.                                               *)
(***************************************************************************)
\* the text a clause call renders: what it appends to an empty builder,
\* without the joining space
Render(c) == Tail(call(NewBuilder, c).v.sql)

\* the calls that led from SqlBuilder() to builders[i], in call order
RECURSIVE History(_)
History(i) == IF parent[i] = 0 THEN <<>> ELSE Append(History(parent[i]), made[i])

\* render(c1) + " " + render(c2) + ... + " " + render(cn)
RECURSIVE Rendered(_)
Rendered(cs) ==
    IF cs = <<>> THEN ""
    ELSE IF Len(cs) = 1 THEN Render(cs[1])
    ELSE Rendered(SubSeq(cs, 1, Len(cs) - 1)) \o " " \o Render(cs[Len(cs)])

Trimmed(s) ==
    s = "" \/ (SubSeq(s, 1, 1) \notin Whitespace /\ SubSeq(s, Len(s), Len(s)) \notin Whitespace)

\* C1: a clause call on any builder, whether it returns or raises, leaves
\* every builder that exists as it was, so that build() on it returns the
\* same text before and after, and a call that returns adds one new builder.
C1_Immutable ==
    [][/\ \A i \in DOMAIN builders :
            /\ i \in DOMAIN builders'
            /\ builders'[i] = builders[i]
            /\ build(builders'[i]) = build(builders[i])
       /\ (last'.op # "build" /\ last'.exc = "") => Len(builders') = Len(builders) + 1
       /\ last'.exc # "" => builders' = builders]_vars

\* reached: the first builder has a child and a grandchild, and a later call
\* on it raised
C1_Witness ==
    /\ Len(builders) = 3
    /\ parent[2] = 1
    /\ parent[3] = 2
    /\ last.exc = "TypeError"
    /\ last.recv = 1
    /\ build(builders[2]) # build(builders[1])

\* C2: every build() returns text without leading or trailing whitespace,
\* returns what the first build() of the same builder returned, whatever
\* calls were made in between, and leaves every fragment as it was.
C2_BuildIdempotentTrimmed ==
    [][last'.op = "build" =>
          /\ Trimmed(last'.out)
          /\ first.recv = last'.recv => last'.out = first.out
          /\ builders' = builders]_vars

\* reached: a builder whose fragment ends in whitespace, and on which
\* further calls were made, was built and built again
C2_Witness ==
    /\ last.op = "build"
    /\ last.recv = first.recv
    /\ first.again
    /\ last.recv < Len(builders)
    /\ rstrip(builders[last.recv].sql) # builders[last.recv].sql
    /\ last.out # ""

\* C3: each builder's fragment is its receiver's fragment, one space and the
\* rendered text of the call that made it, and build() is the trimmed text
\* of the rendered calls joined by single spaces, in call order.
C3_AppendOnly ==
    \A i \in DOMAIN builders :
        /\ parent[i] # 0 =>
              builders[i].sql = builders[parent[i]].sql \o " " \o Render(made[i])
        /\ build(builders[i]) = strip(Rendered(History(i)))

\* reached: three calls out of grammatical order, one of them repeated
C3_Witness ==
    /\ Len(builders) = 4
    /\ made[2].m = "where"
    /\ made[3].m = "select"
    /\ made[4] = made[2]

\* the escape sequence of one byte
EscapeOf(c) ==
    CASE c = NUL -> "\\0"
      [] c = "'" -> "\\'"
      [] c = "\"" -> "\\\""
      [] c = BS -> "\\b"
      [] c = "\n" -> "\\n"
      [] c = "\r" -> "\\r"
      [] c = "\t" -> "\\t"
      [] c = SUB -> "\\Z"
      [] c = "\\" -> "\\\\"
      [] c = "%" -> "\\%"
      [] c = "_" -> "\\_"
      [] OTHER -> c

RECURSIVE EscapeEach(_)
EscapeEach(s) == IF s = "" THEN "" ELSE EscapeOf(Head(s)) \o EscapeEach(Tail(s))

\* C4: the literal _quote_string returns is the input with every byte
\* replaced by its own escape sequence, between two quotes: no escape
\* sequence is escaped again.
C4_EscapedIndependently ==
    (fn = "_quote_string" /\ IsOk(res)) => res.v = "'" \o EscapeEach(args[1].s) \o "'"

\* the text from_tables renders for tables
RenderFrom(tables) == Tail(from_tables(NewBuilder, tables).v.sql)

\* C5: delete renders `delete`, ` quick` exactly when quick is true, ` ignore`
\* exactly when ignore is true, and then what from_tables renders.
C5_DeleteFlags ==
    (fn = "delete" /\ IsOk(from_tables(args[1], args[2]))) =>
        /\ IsOk(res)
        /\ res.v.sql = args[1].sql \o " delete"
                        \o (IF args[3].b THEN " quick" ELSE "")
                        \o (IF args[4].b THEN " ignore" ELSE "")
                        \o " " \o RenderFrom(args[2])

\* the operator e == r and e != r are to build
ComparisonOp(name, r) ==
    IF name = "__eq__" THEN (IF r = None THEN "is" ELSE "=")
    ELSE (IF r = None THEN "is not" ELSE "<>")

\* C6: e == r builds the binary node (e is r) exactly when r is None and
\* (e = r) otherwise, e != r builds (e is not r) exactly when r is None and
\* (e <> r) otherwise; the node serializes as ( quote(e) operator quote(r) ),
\* None as NULL.
C6_NullAwareComparison ==
    fn \in {"__eq__", "__ne__"} =>
        LET e == args[1]
            r == args[2]
            op == ComparisonOp(fn, r)
        IN  /\ res = Ok(SOperator(op, e, r))
            /\ op \in {"is", "is not"} <=> r = None
            /\ (IsOk(_quote(e)) /\ IsOk(_quote(r))) =>
                  _quote(res.v) = Ok("(" \o _quote(e).v \o " " \o op \o " " \o _quote(r).v \o ")")
            /\ r = None => _quote(r) = Ok("NULL")

\* reached: a comparison with None
C6_Witness ==
    /\ fn = "__eq__"
    /\ args[2] = None
    /\ _quote(res.v) = Ok("(" \o BQ \o "column0" \o BQ \o " is NULL)")

\* (((e1 op e2) op e3) ... op en), from the last operand inwards
RECURSIVE LeftNested(_, _)
LeftNested(op_name, exprs) ==
    IF Len(exprs) = 2 THEN SOperator(op_name, exprs[1], exprs[2])
    ELSE SOperator(op_name, LeftNested(op_name, SubSeq(exprs, 1, Len(exprs) - 1)),
                   exprs[Len(exprs)])

\* the exceptions a missing or surplus operand raises
ArgumentCountErrors == {"IndexError", "TypeError"}

\* C7: op_and and op_or with fewer than two operands, op_xor with other
\* than two and op_not with other than one raise and return no node; op_and
\* and op_or with two or more return the left-nested fold.
C7_CombinatorArity ==
    /\ fn \in {"op_and", "op_or"} =>
          IF Len(args) < 2 THEN res.exc \in ArgumentCountErrors
          ELSE res = Ok(LeftNested(IF fn = "op_and" THEN "and" ELSE "or", args))
    /\ fn = "op_xor" =>
          IF Len(args) # 2 THEN res.exc \in ArgumentCountErrors
          ELSE res = Ok(SOperator("xor", args[1], args[2]))
    /\ fn = "op_not" =>
          IF Len(args) # 1 THEN res.exc \in ArgumentCountErrors
          ELSE res = Ok(SSingleOperator("not", args[1]))

\* reached: op_and was called with one operand and raised
C7_Witness ==
    /\ fn = "op_and"
    /\ Len(args) = 1
    /\ res.exc = "IndexError"

\* the calls of scenario 2
Scenario2 ==
    << Method("select", <<Lambda(PyList(<<column0, column1>>))>>),
       Method("from_tables", <<PyStr("table")>>),
       Method("where", <<Lambda(op_and(<<__gt__(column0, PyInt(5)), __lt__(column1, PyInt(10))>>).v)>>) >>

\* whether builders[i] was made by select with a callback that returned a
\* sequence of values without aliases
SelectsSequence(i) ==
    /\ made[i].m = "select"
    /\ made[i].a[1].type = "function"
    /\ isinstance(made[i].a[1].returns, ListTypes)
    /\ \A k \in DOMAIN made[i].a[1].returns.items :
          ~isinstance(made[i].a[1].returns.items[k], ListTypes)

\* q(x1) + sep + q(x2) + ... + sep + q(xn)
RECURSIVE Separated(_, _)
Separated(xs, sep) ==
    IF xs = <<>> THEN ""
    ELSE IF Len(xs) = 1 THEN _quote(xs[1]).v
    ELSE _quote(xs[1]).v \o sep \o Separated(Tail(xs), sep)

\* C8 as amended: scenario 2 builds the text below (# is the backtick), with
\* a comma and one space in the select list, and the select list of a
\* sequence a callback returned is its quoted values in order, separated by
\* a comma and a space.
C8_Scenario2 ==
    \A i \in DOMAIN builders :
        /\ History(i) = Scenario2 =>
              build(builders[i]) =
                "select #column0#, #column1# from #table# where ((#column0# > 5) and (#column1# < 10))"
        /\ SelectsSequence(i) =>
              Render(made[i]) = "select " \o Separated(made[i].a[1].returns.items, ", ")

\* C8 as claimed: no space after the comma.
C8_Original ==
    \A i \in DOMAIN builders :
        /\ History(i) = Scenario2 =>
              build(builders[i]) =
                "select #column0#,#column1# from #table# where ((#column0# > 5) and (#column1# < 10))"
        /\ SelectsSequence(i) =>
              Render(made[i]) = "select " \o Separated(made[i].a[1].returns.items, ",")

\* reached: scenario 2 was carried out
C8_Witness == \E i \in DOMAIN builders : History(i) = Scenario2

\* C9: _quote renders a value by the rule of its own class: a bool as 1 or
\* 0, a datetime by strftime, the root as *, a node by its _to_bytes, and
\* raises TypeError for a builder, a list, a tuple, a dict and a function.
C9_KindDispatch ==
    fn = "_quote" =>
        LET v == args[1]
        IN  /\ v.type = "bool" => res = Ok(IF v.b THEN "1" ELSE "0")
            /\ v.type = "datetime" => res = Ok("'" \o strftime(v) \o "'")
            /\ v.type = "SNameBase" => res = Ok("*")
            /\ v.type \in {"SName", "SMethod", "SOperator", "SSingleOperator", "SHex"} =>
                  res = _to_bytes(v)
            /\ v.type \in {"SqlBuilder", "list", "tuple", "dict", "function"} =>
                  res = Raise("TypeError")

\* reached: True was quoted
C9_Witness ==
    /\ fn = "_quote"
    /\ args[1] = PyBool(TRUE)
    /\ res = Ok("1")

\* the pairs set is given: of a dict, of a sequence, of what a callback returns
PairsOf(pairs) ==
    IF pairs.type = "dict" THEN items(pairs)
    ELSE IF pairs.type = "function" THEN items(pairs.returns)
    ELSE pairs.items

RECURSIVE Assignments(_)
Assignments(ps) ==
    IF ps = <<>> THEN ""
    ELSE _quote_identifier(ps[1].items[1]).v \o "=" \o _quote(ps[1].items[2]).v
         \o (IF Len(ps) = 1 THEN "" ELSE ", " \o Assignments(Tail(ps)))

\* C10: whenever set returns, what it appended begins with `set `, and for
\* an argument that is not a string it is `set ` and the column=value
\* assignments in order, joined by a comma and a space.
C10_SetKeyword ==
    (fn = "set" /\ IsOk(res)) =>
        LET text == SubSeq(res.v.sql, Len(args[1].sql) + 2, Len(res.v.sql))
        IN  /\ SubSeq(text, 1, 4) = "set "
            /\ ~isinstance(args[2], StrTypes) => text = "set " \o Assignments(PairsOf(args[2]))

====
